---- MODULE Spec2Model ----
(***************************************************************************)
(* Model of csrc/sora_ext_lib.cpp (Ziria): the SSE vector kernels, the     *)
(* bitwise kernels, the FFT/IFFT size dispatcher and the Viterbi entry     *)
(* points.                                                                 *)
(*                                                                         *)
(* Memory is a record of named buffers; a buffer is the sequence of its    *)
(* integer components in address order (a complex element i occupies the   *)
(* components 2i (re) and 2i+1 (im), counted from 0).  A pointer argument  *)
(* of a kernel is the name of a buffer.  A 128-bit register is the         *)
(* sequence of its eight unsigned 16-bit words, lowest address first.      *)
(* Signed 32-bit values are kept in -2^31 .. 2^31-1 and all 32-bit         *)
(* arithmetic is done on 16-bit halves so that it wraps as the hardware    *)
(* does.                                                                   *)
(***************************************************************************)
EXTENDS Integers, Sequences, FiniteSets, TLC

VARIABLES
  kind,      \* element type of the buffers the caller holds
  pre,       \* memory handed to the kernel call: [A, B, C -> buffer]
  post,      \* memory after the last kernel call
  call,      \* the last kernel call: [op, len, shift]
  fft,       \* last transform request and what it did
  console,   \* diagnostics printed by the last transform request
  ctx,       \* the process-wide ViterbiContext
  issued,    \* every Viterbi entry-point call so far, in order
  frames     \* per logical frame: number of calls it has issued

bufVars == <<kind, pre, post, call>>
fftVars == <<fft, console>>
vitVars == <<ctx, issued, frames>>
vars == <<kind, pre, post, call, fft, console, ctx, issued, frames>>

----------------------------------------------------------------------------
(* Bounds *)

\* largest element count passed as len
MaxLen == 9
\* bytes per bit-array buffer (the 288-bit path needs 36)
MaxBytes == 38
\* calls each logical frame issues to the Viterbi entry points
MaxCalls == 3

----------------------------------------------------------------------------
(* Fixed-width integer arithmetic *)

U16(v) == v % 65536
S16(u) == IF u % 65536 >= 32768 THEN (u % 65536) - 65536 ELSE u % 65536
U8(v) == v % 256
S8(u) == IF u % 256 >= 128 THEN (u % 256) - 256 ELSE u % 256
Lo16(v) == v % 65536
Hi16(v) == (v \div 65536) % 65536
S32(lo, hi) == S16(hi) * 65536 + lo

\* two's-complement 32-bit add/sub of signed 32-bit values
Add32(p, q) ==
  LET lo == Lo16(p) + Lo16(q)
      hi == Hi16(p) + Hi16(q) + (lo \div 65536)
  IN S32(lo % 65536, hi % 65536)
Sub32(p, q) ==
  LET lo == Lo16(p) - Lo16(q)
      hi == Hi16(p) - Hi16(q) + (lo \div 65536)
  IN S32(lo % 65536, hi % 65536)

\* signed >> of a 32-bit int (arithmetic on the x86 builds this file targets)
Sar32(v, k) == IF k >= 31 THEN (IF v < 0 THEN -1 ELSE 0) ELSE v \div (2 ^ k)
\* unsigned 32-bit >> of the bit pattern of v, result as bit pattern again
Shr32(v, k) ==
  IF k = 0 \/ v >= 0 THEN Sar32(v, k)
  ELSE IF k >= 32 THEN 0
  ELSE Sar32(v, k) + 2 ^ (31 - k) + 2 ^ (31 - k)
\* 32-bit << keeping the low 32 bits
Shl32(v, k) ==
  IF k >= 16 THEN S32(0, (Lo16(v) * 2 ^ (k - 16)) % 65536)
  ELSE LET lo == Lo16(v) * 2 ^ k
       IN S32(lo % 65536, (Hi16(v) * 2 ^ k + (lo \div 65536)) % 65536)

RECURSIVE BitAnd(_, _)
BitAnd(a, b) ==
  IF a = 0 \/ b = 0 THEN 0
  ELSE (a % 2) * (b % 2) + 2 * BitAnd(a \div 2, b \div 2)
RECURSIVE BitOr(_, _)
BitOr(a, b) ==
  IF a = 0 THEN b ELSE IF b = 0 THEN a
  ELSE (IF (a % 2) + (b % 2) > 0 THEN 1 ELSE 0) + 2 * BitOr(a \div 2, b \div 2)
RECURSIVE BitXor(_, _)
BitXor(a, b) ==
  IF a = 0 THEN b ELSE IF b = 0 THEN a
  ELSE ((a + b) % 2) + 2 * BitXor(a \div 2, b \div 2)

----------------------------------------------------------------------------
(* Memory and loops *)

\* C integer division (truncates toward zero), divisor > 0
CDiv(a, b) == IF a >= 0 THEN a \div b ELSE -((-a) \div b)

Rd(m, buf, i) == m[buf][i + 1]
Wr(m, buf, i, v) == [m EXCEPT ![buf][i + 1] = v]

\* for (i = lo; i < hi; i++) m = Body(m, i)
For(lo, hi, m, Body(_, _)) ==
  LET f[i \in lo..hi] == IF i = lo THEN m ELSE Body(f[i - 1], i - 1)
  IN IF hi <= lo THEN m ELSE f[hi]

\* _mm_loadu_si128(&P[i]) where P is an __m128i* over a buffer of w-bit ints
Load128(m, buf, i, w) ==
  IF w = 8 THEN [k \in 1..8 |-> U8(Rd(m, buf, 16 * i + 2 * k - 2))
                                 + 256 * U8(Rd(m, buf, 16 * i + 2 * k - 1))]
  ELSE IF w = 16 THEN [k \in 1..8 |-> U16(Rd(m, buf, 8 * i + k - 1))]
  ELSE [k \in 1..8 |->
          IF k % 2 = 1 THEN Lo16(Rd(m, buf, 4 * i + (k - 1) \div 2))
          ELSE Hi16(Rd(m, buf, 4 * i + (k - 1) \div 2))]
\* _mm_storeu_si128(&P[i], r)
Store128(m, buf, i, w, r) ==
  IF w = 8
  THEN [m EXCEPT ![buf] = [j \in DOMAIN m[buf] |->
          IF j > 16 * i /\ j <= 16 * i + 16
          THEN (IF (j - 16 * i) % 2 = 1 THEN S8(r[(j - 16 * i + 1) \div 2] % 256)
                ELSE S8(r[(j - 16 * i) \div 2] \div 256))
          ELSE m[buf][j]]]
  ELSE IF w = 16
  THEN [m EXCEPT ![buf] = [j \in DOMAIN m[buf] |->
          IF j > 8 * i /\ j <= 8 * i + 8 THEN S16(r[j - 8 * i]) ELSE m[buf][j]]]
  ELSE [m EXCEPT ![buf] = [j \in DOMAIN m[buf] |->
          IF j > 4 * i /\ j <= 4 * i + 4
          THEN S32(r[2 * (j - 4 * i) - 1], r[2 * (j - 4 * i)])
          ELSE m[buf][j]]]

\* 32-bit lane l (1..4) of a register, as a signed value; and back
Lane32(r, l) == S32(r[2 * l - 1], r[2 * l])
FromLanes32(L) ==
  [k \in 1..8 |-> IF k % 2 = 1 THEN Lo16(L[(k + 1) \div 2]) ELSE Hi16(L[k \div 2])]

----------------------------------------------------------------------------
(* SSE2 intrinsics used by the kernels *)

_mm_set1_epi32(v) == FromLanes32([l \in 1..4 |-> v])
\* the saturating add (paddsw) in place of the wrapping one
Mut_mm_adds_epi16(a, b) ==
  [k \in 1..8 |-> LET v == S16(a[k]) + S16(b[k])
                  IN U16(IF v > 32767 THEN 32767 ELSE IF v < -32768 THEN -32768 ELSE v)]
_mm_add_epi16(a, b) == [k \in 1..8 |-> (a[k] + b[k]) % 65536]
_mm_sub_epi16(a, b) == [k \in 1..8 |-> (a[k] - b[k]) % 65536]
_mm_add_epi32(a, b) == FromLanes32([l \in 1..4 |-> Add32(Lane32(a, l), Lane32(b, l))])
_mm_sub_epi32(a, b) == FromLanes32([l \in 1..4 |-> Sub32(Lane32(a, l), Lane32(b, l))])
_mm_srai_epi16(a, n) ==
  [k \in 1..8 |-> U16(IF n > 15 THEN (IF S16(a[k]) < 0 THEN -1 ELSE 0)
                      ELSE S16(a[k]) \div (2 ^ n))]
_mm_srai_epi32(a, n) == FromLanes32([l \in 1..4 |-> Sar32(Lane32(a, l), n)])
_mm_slli_epi32(a, n) ==
  FromLanes32([l \in 1..4 |-> IF n > 31 THEN 0 ELSE Shl32(Lane32(a, l), n)])
_mm_xor_si128(a, b) == [k \in 1..8 |-> BitXor(a[k], b[k])]
_mm_and_si128(a, b) == [k \in 1..8 |-> BitAnd(a[k], b[k])]
_mm_or_si128(a, b) == [k \in 1..8 |-> BitOr(a[k], b[k])]
\* (~a) & b
_mm_andnot_si128(a, b) == [k \in 1..8 |-> BitAnd(65535 - a[k], b[k])]
\* per signed byte: -a where b < 0, 0 where b = 0, a where b > 0
_mm_sign_epi8(a, b) ==
  LET sgn(x, y) == IF S8(y) < 0 THEN U8(-S8(x)) ELSE IF S8(y) = 0 THEN 0 ELSE U8(x)
  IN [k \in 1..8 |-> sgn(a[k] % 256, b[k] % 256)
                     + 256 * sgn(a[k] \div 256, b[k] \div 256)]
\* _mm_shufflelo_epi16 / _mm_shufflehi_epi16 with _MM_SHUFFLE(2, 3, 0, 1)
_mm_shufflelo_epi16_2301(a) ==
  [k \in 1..8 |-> IF k <= 4 THEN (IF k % 2 = 1 THEN a[k + 1] ELSE a[k - 1]) ELSE a[k]]
_mm_shufflehi_epi16_2301(a) ==
  [k \in 1..8 |-> IF k > 4 THEN (IF k % 2 = 1 THEN a[k + 1] ELSE a[k - 1]) ELSE a[k]]
\* per 32-bit lane: lo*lo + hi*hi of the signed 16-bit words, wrapped to 32 bits
_mm_madd_epi16(a, b) ==
  FromLanes32([l \in 1..4 |-> Add32(S16(a[2 * l - 1]) * S16(b[2 * l - 1]),
                               S16(a[2 * l]) * S16(b[2 * l]))])

----------------------------------------------------------------------------
(* c = a + b *)

__ext_v_add_complex16(mem, c, len, a, b) ==
  LET wlen == 4
      Vec(m, i) == Store128(m, c, i, 16,
                     _mm_add_epi16(Load128(m, a, i, 16), Load128(m, b, i, 16)))
      Scal(m, i) ==
        LET m1 == Wr(m, c, 2 * i, S16(Rd(m, a, 2 * i) + Rd(m, b, 2 * i)))
        IN Wr(m1, c, 2 * i + 1, S16(Rd(m1, a, 2 * i + 1) + Rd(m1, b, 2 * i + 1)))
  IN For(CDiv(len, wlen) * wlen, len, For(0, CDiv(len, wlen), mem, Vec), Scal)

\* the int32 scalar tails add with the machine's wrapping 32-bit add
__ext_v_add_complex32(mem, c, len, a, b) ==
  LET wlen == 2
      Vec(m, i) == Store128(m, c, i, 32,
                     _mm_add_epi32(Load128(m, a, i, 32), Load128(m, b, i, 32)))
      Scal(m, i) ==
        LET m1 == Wr(m, c, 2 * i, Add32(Rd(m, a, 2 * i), Rd(m, b, 2 * i)))
        IN Wr(m1, c, 2 * i + 1, Add32(Rd(m1, a, 2 * i + 1), Rd(m1, b, 2 * i + 1)))
  IN For(CDiv(len, wlen) * wlen, len, For(0, CDiv(len, wlen), mem, Vec), Scal)

__ext_v_add_int16(mem, c, len, a, b) ==
  LET wlen == 8
      Vec(m, i) == Store128(m, c, i, 16,
                     _mm_add_epi16(Load128(m, a, i, 16), Load128(m, b, i, 16)))
      Scal(m, i) == Wr(m, c, i, S16(Rd(m, a, i) + Rd(m, b, i)))
  IN For(CDiv(len, wlen) * wlen, len, For(0, CDiv(len, wlen), mem, Vec), Scal)

__ext_v_add_int32(mem, c, len, a, b) ==
  LET wlen == 4
      Vec(m, i) == Store128(m, c, i, 32,
                     _mm_add_epi32(Load128(m, a, i, 32), Load128(m, b, i, 32)))
      Scal(m, i) == Wr(m, c, i, Add32(Rd(m, a, i), Rd(m, b, i)))
  IN For(CDiv(len, wlen) * wlen, len, For(0, CDiv(len, wlen), mem, Vec), Scal)

(* c = a - b *)

__ext_v_sub_complex16(mem, c, len, a, b) ==
  LET wlen == 4
      Vec(m, i) == Store128(m, c, i, 16,
                     _mm_sub_epi16(Load128(m, a, i, 16), Load128(m, b, i, 16)))
      Scal(m, i) ==
        LET m1 == Wr(m, c, 2 * i, S16(Rd(m, a, 2 * i) - Rd(m, b, 2 * i)))
        IN Wr(m1, c, 2 * i + 1, S16(Rd(m1, a, 2 * i + 1) - Rd(m1, b, 2 * i + 1)))
  IN For(CDiv(len, wlen) * wlen, len, For(0, CDiv(len, wlen), mem, Vec), Scal)

__ext_v_sub_complex32(mem, c, len, a, b) ==
  LET wlen == 2
      Vec(m, i) == Store128(m, c, i, 32,
                     _mm_sub_epi32(Load128(m, a, i, 32), Load128(m, b, i, 32)))
      Scal(m, i) ==
        LET m1 == Wr(m, c, 2 * i, Sub32(Rd(m, a, 2 * i), Rd(m, b, 2 * i)))
        IN Wr(m1, c, 2 * i + 1, Sub32(Rd(m1, a, 2 * i + 1), Rd(m1, b, 2 * i + 1)))
  IN For(CDiv(len, wlen) * wlen, len, For(0, CDiv(len, wlen), mem, Vec), Scal)

__ext_v_sub_int16(mem, c, len, a, b) ==
  LET wlen == 8
      Vec(m, i) == Store128(m, c, i, 16,
                     _mm_sub_epi16(Load128(m, a, i, 16), Load128(m, b, i, 16)))
      Scal(m, i) == Wr(m, c, i, S16(Rd(m, a, i) - Rd(m, b, i)))
  IN For(CDiv(len, wlen) * wlen, len, For(0, CDiv(len, wlen), mem, Vec), Scal)

__ext_v_sub_int32(mem, c, len, a, b) ==
  LET wlen == 4
      Vec(m, i) == Store128(m, c, i, 32,
                     _mm_sub_epi32(Load128(m, a, i, 32), Load128(m, b, i, 32)))
      Scal(m, i) == Wr(m, c, i, Sub32(Rd(m, a, i), Rd(m, b, i)))
  IN For(CDiv(len, wlen) * wlen, len, For(0, CDiv(len, wlen), mem, Vec), Scal)

----------------------------------------------------------------------------
\* z = x >> shift.  The complex tails walk the components through unsigned
\* pointers (unum32, unum16), the int16/int32 tails through the signed ones.

__ext_v_shift_right_complex32(mem, z, x, len, shift) ==
  LET wlen == 2
      Vec(m, i) == Store128(m, z, i, 32, _mm_srai_epi32(Load128(m, x, i, 32), shift))
      Scal(m, i) == Wr(m, z, i, Shr32(Rd(m, x, i), shift))
  IN For(CDiv(len, wlen) * wlen * 2, len * 2, For(0, CDiv(len, wlen), mem, Vec), Scal)

__ext_v_shift_right_complex16(mem, z, x, len, shift) ==
  LET wlen == 4
      Vec(m, i) == Store128(m, z, i, 16, _mm_srai_epi16(Load128(m, x, i, 16), shift))
      Scal(m, i) == Wr(m, z, i, S16(U16(Rd(m, x, i)) \div (2 ^ shift)))
  IN For(CDiv(len, wlen) * wlen * 2, len * 2, For(0, CDiv(len, wlen), mem, Vec), Scal)

__ext_v_shift_right_int32(mem, z, x, len, shift) ==
  LET wlen == 4
      Vec(m, i) == Store128(m, z, i, 32, _mm_srai_epi32(Load128(m, x, i, 32), shift))
      Scal(m, i) == Wr(m, z, i, Sar32(Rd(m, x, i), shift))
  IN For(CDiv(len, wlen) * wlen, len, For(0, CDiv(len, wlen), mem, Vec), Scal)

__ext_v_shift_right_int16(mem, z, x, len, shift) ==
  LET wlen == 8
      Vec(m, i) == Store128(m, z, i, 16, _mm_srai_epi16(Load128(m, x, i, 16), shift))
      Scal(m, i) == Wr(m, z, i, S16(Rd(m, x, i) \div (2 ^ shift)))
  IN For(CDiv(len, wlen) * wlen, len, For(0, CDiv(len, wlen), mem, Vec), Scal)

----------------------------------------------------------------------------
(* out = x * y >> shift  and  out = x * conj(y) >> shift *)

\* the scalar tails compute in int: 32-bit products, sum, signed >>, then the
\* store into the int16 field keeps the low 16 bits
__ext_v_mul_complex16(mem, out, x, len1, y, shift) ==
  LET wlen == 4
      xmm6 == _mm_set1_epi32(65535)       \* 0x0000FFFF
      xmm5 == _mm_set1_epi32(-65536)      \* 0xFFFF0000
      xmm4 == _mm_set1_epi32(65536)       \* 0x00010000
      Vec(m, i) ==
        LET mx == Load128(m, x, i, 16)
            my == Load128(m, y, i, 16)
            ms1 == _mm_add_epi32(_mm_xor_si128(mx, xmm5), xmm4)
            ms2 == _mm_shufflelo_epi16_2301(_mm_shufflehi_epi16_2301(mx))
            mre == _mm_and_si128(_mm_srai_epi32(_mm_madd_epi16(ms1, my), shift), xmm6)
            mim == _mm_and_si128(_mm_srai_epi32(_mm_madd_epi16(ms2, my), shift), xmm6)
        IN Store128(m, out, i, 16, _mm_or_si128(mre, _mm_slli_epi32(mim, 16)))
      Scal(m, i) ==
        LET m1 == Wr(m, out, 2 * i,
                     S16(Sar32(Sub32(Rd(m, x, 2 * i) * Rd(m, y, 2 * i),
                                     Rd(m, x, 2 * i + 1) * Rd(m, y, 2 * i + 1)), shift)))
        IN Wr(m1, out, 2 * i + 1,
              S16(Sar32(Add32(Rd(m1, x, 2 * i) * Rd(m1, y, 2 * i + 1),
                              Rd(m1, x, 2 * i + 1) * Rd(m1, y, 2 * i)), shift)))
  IN For(CDiv(len1, wlen) * wlen, len1, For(0, CDiv(len1, wlen), mem, Vec), Scal)

__ext_v_conj_mul_complex16(mem, out, x, len1, y, shift) ==
  LET wlen == 4
      xmm6 == _mm_set1_epi32(65535)       \* 0x0000FFFF
      xmm5 == _mm_set1_epi32(-65536)      \* 0xFFFF0000
      xmm4 == _mm_set1_epi32(65536)       \* 0x00010000
      Vec(m, i) ==
        LET mx == Load128(m, x, i, 16)
            my == Load128(m, y, i, 16)
            ms2a == _mm_add_epi32(_mm_xor_si128(my, xmm5), xmm4)
            ms2 == _mm_shufflelo_epi16_2301(_mm_shufflehi_epi16_2301(ms2a))
            mre == _mm_and_si128(_mm_srai_epi32(_mm_madd_epi16(my, mx), shift), xmm6)
            mim == _mm_and_si128(_mm_srai_epi32(_mm_madd_epi16(ms2, mx), shift), xmm6)
        IN Store128(m, out, i, 16, _mm_or_si128(mre, _mm_slli_epi32(mim, 16)))
      Scal(m, i) ==
        LET m1 == Wr(m, out, 2 * i,
                     S16(Sar32(Add32(Rd(m, x, 2 * i) * Rd(m, y, 2 * i),
                                     Rd(m, x, 2 * i + 1) * Rd(m, y, 2 * i + 1)), shift)))
        IN Wr(m1, out, 2 * i + 1,
              S16(Sar32(Sub32(Rd(m1, x, 2 * i + 1) * Rd(m1, y, 2 * i),
                              Rd(m1, x, 2 * i) * Rd(m1, y, 2 * i + 1)), shift)))
  IN For(CDiv(len1, wlen) * wlen, len1, For(0, CDiv(len1, wlen), mem, Vec), Scal)

\* re and im of x * conj(y) as two int32 buffers, no shift
__ext_v_conj_mul_complex16_int32(mem, re, im, x, len1, y) ==
  LET wlen == 4
      xmm5 == _mm_set1_epi32(-65536)      \* 0xFFFF0000
      xmm4 == _mm_set1_epi32(65536)       \* 0x00010000
      Vec(m, i) ==
        LET mx == Load128(m, x, i, 16)
            my == Load128(m, y, i, 16)
            ms2a == _mm_add_epi32(_mm_xor_si128(my, xmm5), xmm4)
            ms2 == _mm_shufflelo_epi16_2301(_mm_shufflehi_epi16_2301(ms2a))
            m1 == Store128(m, re, i, 32, _mm_madd_epi16(my, mx))
        IN Store128(m1, im, i, 32, _mm_madd_epi16(ms2, mx))
      Scal(m, i) ==
        LET m1 == Wr(m, re, i, Add32(Rd(m, x, 2 * i) * Rd(m, y, 2 * i),
                                     Rd(m, x, 2 * i + 1) * Rd(m, y, 2 * i + 1)))
        IN Wr(m1, im, i, Sub32(Rd(m1, x, 2 * i + 1) * Rd(m1, y, 2 * i),
                               Rd(m1, x, 2 * i) * Rd(m1, y, 2 * i + 1)))
  IN For(CDiv(len1, wlen) * wlen, len1, For(0, CDiv(len1, wlen), mem, Vec), Scal)

----------------------------------------------------------------------------
(* Reductions: hadd, sum, and the 4-element sum helpers *)

\* the total is recomputed from x for every output lane
Mut__ext_v_hadd_complex16(mem, z, x) ==
  LET re(m) == S16(Rd(m, x, 0) + Rd(m, x, 2) + Rd(m, x, 4) + Rd(m, x, 6))
      im(m) == S16(Rd(m, x, 1) + Rd(m, x, 3) + Rd(m, x, 5) + Rd(m, x, 7))
      Body(m, i) == Wr(Wr(m, z, 2 * i, re(m)), z, 2 * i + 1, im(m))
  IN For(0, 4, mem, Body)
\* the int sum of four int16 is narrowed by the store into num16 re / im
__ext_v_hadd_complex16(mem, z, x) ==
  LET re == S16(Rd(mem, x, 0) + Rd(mem, x, 2) + Rd(mem, x, 4) + Rd(mem, x, 6))
      im == S16(Rd(mem, x, 1) + Rd(mem, x, 3) + Rd(mem, x, 5) + Rd(mem, x, 7))
      Body(m, i) == Wr(Wr(m, z, 2 * i, re), z, 2 * i + 1, im)
  IN For(0, 4, mem, Body)
\* z[0] is written first, then copied into z[1..3]
__ext_v_hadd_int32(mem, z, x) ==
  LET m0 == Wr(mem, z, 0, Add32(Add32(Add32(Rd(mem, x, 0), Rd(mem, x, 1)),
                                      Rd(mem, x, 2)), Rd(mem, x, 3)))
      Body(m, i) == Wr(m, z, i, Rd(m, z, 0))
  IN For(1, 4, m0, Body)

\* the returned struct as <<re, im>>
__ext_v_sum_complex16(mem, x, len) ==
  LET Body(ret, i) == <<S16(ret[1] + Rd(mem, x, 2 * i)),
                        S16(ret[2] + Rd(mem, x, 2 * i + 1))>>
  IN For(0, len, <<0, 0>>, Body)
__ext_v_sum_complex32(mem, x, len) ==
  LET Body(ret, i) == <<Add32(ret[1], Rd(mem, x, 2 * i)),
                        Add32(ret[2], Rd(mem, x, 2 * i + 1))>>
  IN For(0, len, <<0, 0>>, Body)
\* an accumulator that clamps to the int16 range instead of wrapping
Mut__ext_v_sum_int16(mem, x, len) ==
  LET Body(sum, i) ==
        LET v == sum + Rd(mem, x, i)
        IN IF v > 32767 THEN 32767 ELSE IF v < -32768 THEN -32768 ELSE v
  IN For(0, len, 0, Body)
__ext_v_sum_int16(mem, x, len) ==
  LET Body(sum, i) == S16(sum + Rd(mem, x, i))
  IN For(0, len, 0, Body)
__ext_v_sum_int32(mem, x, len) ==
  LET Body(sum, i) == Add32(sum, Rd(mem, x, i))
  IN For(0, len, 0, Body)

__ext_sumc32(mem, x) ==
  <<Add32(Add32(Add32(Rd(mem, x, 0), Rd(mem, x, 2)), Rd(mem, x, 4)), Rd(mem, x, 6)),
    Add32(Add32(Add32(Rd(mem, x, 1), Rd(mem, x, 3)), Rd(mem, x, 5)), Rd(mem, x, 7))>>
__ext_sumc16(mem, x) ==
  <<S16(Rd(mem, x, 0) + Rd(mem, x, 2) + Rd(mem, x, 4) + Rd(mem, x, 6)),
    S16(Rd(mem, x, 1) + Rd(mem, x, 3) + Rd(mem, x, 5) + Rd(mem, x, 7))>>
\* int16 ret; ret += x[i] adds in int and narrows to int16; the int16 is
\* returned as int32
__ext_sumi32(mem, x) ==
  LET Body(ret, i) == S16(Add32(ret, Rd(mem, x, i)))
  IN For(0, 4, 0, Body)
__ext_sumi16(mem, x) ==
  LET Body(ret, i) == S16(ret + Rd(mem, x, i))
  IN For(0, 4, 0, Body)

----------------------------------------------------------------------------
(* complex16 -> complex8 pack (SORA_PLATFORM build) *)

\* signed saturation of a 16-bit value to 8 bits
Sat8(v) == IF v > 127 THEN 127 ELSE IF v < -128 THEN -128 ELSE v
\* vector128.h saturated_pack(a, b) on two vcs: the 16 int8 of a then b
saturated_pack(a, b) ==
  [k \in 1..8 |->
     IF k <= 4 THEN U8(Sat8(S16(a[2 * k - 1]))) + 256 * U8(Sat8(S16(a[2 * k])))
     ELSE U8(Sat8(S16(b[2 * k - 9]))) + 256 * U8(Sat8(S16(b[2 * k - 8])))]

__ext_v_pack_complex16_complex8(mem, output, input, lenin) ==
  LET wlen == 4   \* sizeof(vcs) / sizeof(complex16)
      n == CDiv(CDiv(lenin, wlen), 2)
      Vec(m, i) == Store128(m, output, i, 8,
                     saturated_pack(Load128(m, input, 2 * i, 16),
                                    Load128(m, input, 2 * i + 1, 16)))
      Scal(m, j) ==
        LET m1 == Wr(m, output, 2 * j, S8(Rd(m, input, 2 * j)))
        IN Wr(m1, output, 2 * j + 1, S8(Rd(m1, input, 2 * j + 1)))
  IN For(n * 2 * wlen, lenin, For(0, n, mem, Vec), Scal)

----------------------------------------------------------------------------
(* Bitwise OR over bit arrays.  A byte pointer is [buf, off]; an unsigned  *)
(* integer loaded through a wider pointer is the sequence of its bytes.    *)

Ptr(buf) == [buf |-> buf, off |-> 0]
PAdd(p, n) == [p EXCEPT !.off = @ + n]
RdB(m, p, i) == m[p.buf][p.off + i + 1]
WrB(m, p, i, v) == [m EXCEPT ![p.buf][p.off + i + 1] = v]
\* *(unumN *)p  and  *(unumN *)p = v,  N = 8 * n
LoadU(m, p, n) == [k \in 1..n |-> RdB(m, p, k - 1)]
StoreU(m, p, n, v) ==
  [m EXCEPT ![p.buf] = [j \in DOMAIN m[p.buf] |->
     IF j > p.off /\ j <= p.off + n THEN v[j - p.off] ELSE m[p.buf][j]]]
\* i1 | i2 on two unsigned integers of the same width
OrU(i1, i2) == [k \in DOMAIN i1 |-> BitOr(i1[k], i2[k])]

__ext_v_or_48(mem, output, input1, input2) ==
  LET m1 == StoreU(mem, output, 4, OrU(LoadU(mem, input1, 4), LoadU(mem, input2, 4)))
  IN StoreU(m1, PAdd(output, 4), 2,
            OrU(LoadU(m1, PAdd(input1, 4), 2), LoadU(m1, PAdd(input2, 4), 2)))

__ext_v_or_96(mem, output, input1, input2) ==
  LET m1 == StoreU(mem, output, 8, OrU(LoadU(mem, input1, 8), LoadU(mem, input2, 8)))
  IN StoreU(m1, PAdd(output, 8), 4,
            OrU(LoadU(m1, PAdd(input1, 8), 4), LoadU(m1, PAdd(input2, 8), 4)))

\* the third 64-bit block addressed at +8 again instead of +16
Mut__ext_v_or_192(mem, output, input1, input2) ==
  LET m1 == StoreU(mem, output, 8, OrU(LoadU(mem, input1, 8), LoadU(mem, input2, 8)))
      m2 == StoreU(m1, PAdd(output, 8), 8,
                   OrU(LoadU(m1, PAdd(input1, 8), 8), LoadU(m1, PAdd(input2, 8), 8)))
  IN StoreU(m2, PAdd(output, 8), 8,
            OrU(LoadU(m2, PAdd(input1, 8), 8), LoadU(m2, PAdd(input2, 8), 8)))
__ext_v_or_192(mem, output, input1, input2) ==
  LET m1 == StoreU(mem, output, 8, OrU(LoadU(mem, input1, 8), LoadU(mem, input2, 8)))
      m2 == StoreU(m1, PAdd(output, 8), 8,
                   OrU(LoadU(m1, PAdd(input1, 8), 8), LoadU(m1, PAdd(input2, 8), 8)))
  IN StoreU(m2, PAdd(output, 16), 8,
            OrU(LoadU(m2, PAdd(input1, 16), 8), LoadU(m2, PAdd(input2, 16), 8)))

__ext_v_or_288(mem, output, input1, input2) ==
  __ext_v_or_96(__ext_v_or_192(mem, output, input1, input2),
                PAdd(output, 24), PAdd(input1, 24), PAdd(input2, 24))

__ext_v_or(mem, output, input1, inlen1, input2) ==
  CASE inlen1 = 48 -> __ext_v_or_48(mem, output, input1, input2)
    [] inlen1 = 96 -> __ext_v_or_96(mem, output, input1, input2)
    [] inlen1 = 192 -> __ext_v_or_192(mem, output, input1, input2)
    [] inlen1 = 288 -> __ext_v_or_288(mem, output, input1, input2)
    [] OTHER ->
         LET Body(m, cnt) == WrB(m, output, cnt, BitOr(RdB(m, input1, cnt), RdB(m, input2, cnt)))
         IN For(0, CDiv(inlen1 + 7, 8), mem, Body)

\* _mm_loadu_si128((__m128i *) p) and _mm_storeu_si128((__m128i *) p, r) through
\* a byte pointer: 16 bytes, two per 16-bit word of the register
_mm_loadu_si128(m, p) == [k \in 1..8 |-> RdB(m, p, 2 * k - 2) + 256 * RdB(m, p, 2 * k - 1)]
_mm_storeu_si128(m, p, r) ==
  StoreU(m, p, 16, [j \in 1..16 |-> IF j % 2 = 1 THEN r[(j + 1) \div 2] % 256
                                     ELSE r[j \div 2] \div 256])
\* inlen1 / 8 + ((inlen1 % 8) > 0) in C arithmetic
ByteLen(inlen1) ==
  CDiv(inlen1, 8) + (IF inlen1 - 8 * CDiv(inlen1, 8) > 0 THEN 1 ELSE 0)

__ext_v_and(mem, output, input1, inlen1, input2) ==
  LET bytelen1 == ByteLen(inlen1)
      Vec(m, c) ==
        _mm_storeu_si128(m, PAdd(output, 16 * c),
                         _mm_and_si128(_mm_loadu_si128(m, PAdd(input1, 16 * c)),
                                       _mm_loadu_si128(m, PAdd(input2, 16 * c))))
      Scal(m, cnt) ==
        WrB(m, output, cnt, BitAnd(RdB(m, input1, cnt), RdB(m, input2, cnt)))
  IN For(CDiv(bytelen1, 16) * 16, bytelen1, For(0, CDiv(bytelen1, 16), mem, Vec), Scal)

\* the remainder loop masks input1 with the complement of input2
Mut__ext_v_andnot(mem, output, input1, inlen1, input2) ==
  LET bytelen1 == ByteLen(inlen1)
      Vec(m, c) ==
        _mm_storeu_si128(m, PAdd(output, 16 * c),
                         _mm_andnot_si128(_mm_loadu_si128(m, PAdd(input1, 16 * c)),
                                          _mm_loadu_si128(m, PAdd(input2, 16 * c))))
      Scal(m, cnt) ==
        WrB(m, output, cnt, BitAnd(RdB(m, input1, cnt), 255 - RdB(m, input2, cnt)))
  IN For(CDiv(bytelen1, 16) * 16, bytelen1, For(0, CDiv(bytelen1, 16), mem, Vec), Scal)
__ext_v_andnot(mem, output, input1, inlen1, input2) ==
  LET bytelen1 == ByteLen(inlen1)
      Vec(m, c) ==
        _mm_storeu_si128(m, PAdd(output, 16 * c),
                         _mm_andnot_si128(_mm_loadu_si128(m, PAdd(input1, 16 * c)),
                                          _mm_loadu_si128(m, PAdd(input2, 16 * c))))
      Scal(m, cnt) ==
        WrB(m, output, cnt, BitAnd(255 - RdB(m, input1, cnt), RdB(m, input2, cnt)))
  IN For(CDiv(bytelen1, 16) * 16, bytelen1, For(0, CDiv(bytelen1, 16), mem, Vec), Scal)

__ext_v_xor(mem, output, input1, inlen1, input2) ==
  LET bytelen1 == ByteLen(inlen1)
      Vec(m, c) ==
        _mm_storeu_si128(m, PAdd(output, 16 * c),
                         _mm_xor_si128(_mm_loadu_si128(m, PAdd(input1, 16 * c)),
                                       _mm_loadu_si128(m, PAdd(input2, 16 * c))))
      Scal(m, cnt) ==
        WrB(m, output, cnt, BitXor(RdB(m, input1, cnt), RdB(m, input2, cnt)))
  IN For(CDiv(bytelen1, 16) * 16, bytelen1, For(0, CDiv(bytelen1, 16), mem, Vec), Scal)

\* int8 buffers read through vcs pointers, 16 bytes at a time; the remainder
\* loop negates in int and the store keeps the low 8 bits
__ext_v_sign_int8(mem, output, input1, inlen1, input2) ==
  LET Vec(m, c) ==
        Store128(m, output, c, 8,
                 _mm_sign_epi8(Load128(m, input1, c, 8), Load128(m, input2, c, 8)))
      Scal(m, cnt) ==
        Wr(m, output, cnt,
           S8(IF Rd(m, input2, cnt) < 0 THEN -Rd(m, input1, cnt) ELSE Rd(m, input1, cnt)))
  IN For(CDiv(inlen1, 16) * 16, inlen1, For(0, CDiv(inlen1, 16), mem, Vec), Scal)

----------------------------------------------------------------------------
(* FFT / IFFT dispatch *)

\* the switch of __ext_sora_fft: <<case label, N of the FFTSafe<N> it calls>>,
\* in source order; every case ends in break
FFTCases ==
  <<<<16, 16>>, <<32, 32>>, <<64, 64>>, <<128, 128>>, <<256, 256>>, <<512, 512>>,
     <<1024, 1024>>, <<2048, 2048>>, <<12, 12>>, <<24, 24>>, <<36, 36>>, <<48, 48>>,
     <<60, 60>>, <<72, 72>>, <<96, 96>>, <<108, 108>>, <<120, 120>>, <<144, 144>>,
     <<180, 180>>, <<192, 192>>, <<216, 216>>, <<240, 240>>, <<288, 288>>, <<300, 300>>,
     <<324, 324>>, <<360, 360>>, <<384, 384>>, <<432, 432>>, <<480, 480>>, <<540, 540>>,
     <<576, 576>>, <<600, 600>>, <<648, 648>>, <<720, 720>>, <<768, 768>>, <<864, 864>>,
     <<900, 900>>, <<960, 960>>, <<972, 972>>, <<1080, 1080>>, <<1152, 1152>>, <<1200, 1200>> >>

\* a case label that instantiates its neighbour's length
MutIFFTCases ==
  <<<<16, 16>>, <<32, 32>>, <<64, 64>>, <<128, 128>>, <<256, 256>>, <<512, 512>>,
     <<1024, 1024>>, <<2048, 2048>>, <<12, 12>>, <<24, 24>>, <<36, 36>>, <<48, 48>>,
     <<60, 60>>, <<72, 72>>, <<96, 96>>, <<108, 108>>, <<120, 120>>, <<144, 144>>,
     <<180, 180>>, <<192, 192>>, <<216, 216>>, <<240, 240>>, <<288, 288>>, <<300, 300>>,
     <<324, 324>>, <<360, 360>>, <<384, 384>>, <<432, 432>>, <<480, 480>>, <<540, 540>>,
     <<576, 576>>, <<600, 600>>, <<648, 648>>, <<720, 720>>, <<768, 768>>, <<864, 864>>,
     <<900, 900>>, <<960, 960>>, <<972, 960>>, <<1080, 1080>>, <<1152, 1152>>, <<1200, 1200>> >>
\* the switch of __ext_sora_ifft: <<case label, N of the IFFTSafe<N> it calls>>
IFFTCases ==
  <<<<16, 16>>, <<32, 32>>, <<64, 64>>, <<128, 128>>, <<256, 256>>, <<512, 512>>,
     <<1024, 1024>>, <<2048, 2048>>, <<12, 12>>, <<24, 24>>, <<36, 36>>, <<48, 48>>,
     <<60, 60>>, <<72, 72>>, <<96, 96>>, <<108, 108>>, <<120, 120>>, <<144, 144>>,
     <<180, 180>>, <<192, 192>>, <<216, 216>>, <<240, 240>>, <<288, 288>>, <<300, 300>>,
     <<324, 324>>, <<360, 360>>, <<384, 384>>, <<432, 432>>, <<480, 480>>, <<540, 540>>,
     <<576, 576>>, <<600, 600>>, <<648, 648>>, <<720, 720>>, <<768, 768>>, <<864, 864>>,
     <<900, 900>>, <<960, 960>>, <<972, 972>>, <<1080, 1080>>, <<1152, 1152>>, <<1200, 1200>> >>

\* FFTSafe<N>(in, out) / IFFTSafe<N>(in, out): the transform of length N has
\* run and out holds its result; <<template, N>> names the instantiation
FFTSafe(N, st) ==
  [st EXCEPT !.ran = Append(@, <<"FFTSafe", N>>),
             !.output = <<"FFTSafe", N>>]
IFFTSafe(N, st) ==
  [st EXCEPT !.ran = Append(@, <<"IFFTSafe", N>>),
             !.output = <<"IFFTSafe", N>>]
\* printf("... error: fft size %d not supported!\n", nFFTSize)
printf(who, nFFTSize, st) ==
  [st EXCEPT !.console = Append(@, [from |-> who, unsupported |-> nFFTSize])]

\* what a request starts from: nothing run, nothing printed, output as it was
Request(entry, size) ==
  [entry |-> entry, size |-> size, ran |-> <<>>, output |-> "untouched",
   console |-> <<>>]

__ext_sora_fft(st, nFFTSize) ==
  IF \E i \in DOMAIN FFTCases : FFTCases[i][1] = nFFTSize
  THEN FFTSafe(FFTCases[CHOOSE i \in DOMAIN FFTCases : FFTCases[i][1] = nFFTSize][2], st)
  ELSE printf("__ext_sora_fft", nFFTSize, st)
\* int16 nFFTSize, widened to int for the call
__ext_sora_fft_dynamic(st, nFFTSize) == __ext_sora_fft(st, S16(nFFTSize))

\* unsupported sizes fall back to a fixed transform without a diagnostic
Mut__ext_sora_ifft(st, nFFTSize) ==
  IF \E i \in DOMAIN IFFTCases : IFFTCases[i][1] = nFFTSize
  THEN IFFTSafe(IFFTCases[CHOOSE i \in DOMAIN IFFTCases : IFFTCases[i][1] = nFFTSize][2], st)
  ELSE IFFTSafe(128, st)
__ext_sora_ifft(st, nFFTSize) ==
  IF \E i \in DOMAIN IFFTCases : IFFTCases[i][1] = nFFTSize
  THEN IFFTSafe(IFFTCases[CHOOSE i \in DOMAIN IFFTCases : IFFTCases[i][1] = nFFTSize][2], st)
  ELSE printf("__ext_sora_ifft", nFFTSize, st)
__ext_sora_ifft_dynamic(st, nFFTSize) == __ext_sora_ifft(st, S16(nFFTSize))

----------------------------------------------------------------------------
(* Viterbi entry points on the global ViterbiContext ctx *)

\* initViterbi / initViterbiSig11a (&ctx, frame_len, (ushort) code_rate): the
\* context is reset for a new frame with the trellis of that variant
initViterbi(c, frame_len, code_rate) ==
  [init |-> "viterbi", frame_len |-> frame_len, code_rate |-> code_rate, fed |-> <<>>]
initViterbiSig11a(c, frame_len, code_rate) ==
  [init |-> "viterbiSig11a", frame_len |-> frame_len, code_rate |-> code_rate,
   fed |-> <<>>]
\* processViterbi(&ctx, intInput, bit): the trellis advances over the chunk
processViterbi(c, intInput) == [c EXCEPT !.fed = Append(@, intInput)]

__ext_viterbi_brick_init(c, frame_len, code_rate) ==
  initViterbi(c, frame_len, U16(code_rate))
\* the signal-field variant initialises a context of its own
Mut__ext_viterbiSig11a_brick_init(c, frame_len, code_rate) == c
__ext_viterbiSig11a_brick_init(c, frame_len, code_rate) ==
  initViterbiSig11a(c, frame_len, U16(code_rate))
__ext_viterbi_brick_decode(c, intInput) == processViterbi(c, intInput)

----------------------------------------------------------------------------
(* The caller's buffers *)

\* the numeric element types, and "bytes" for bit arrays
Kinds == {"int16", "int32", "complex16", "complex32"}
\* components per element
Per(k) == IF k \in {"complex16", "complex32"} THEN 2 ELSE 1
\* elements per buffer: room for two pack chunks and a tail
Cap == 2 * MaxLen + 1

\* element values the caller's buffers are filled from, in address order
Pool(k) ==
  CASE k = "int16" -> <<-32768, -3, 0, 1, 32767, -1, 300, -200>>
    [] k = "int32" -> <<-2147483647 - 1, -3, 0, 1, 2147483647, -1, 65536, -65537>>
    [] k = "complex16" -> <<0, -32768,   1, 0,   -32768, -32768,   3, -5,
                            32767, 32767,   -129, 128,   0, 1,   300, -200>>
    [] k = "complex32" -> <<0, -2147483647 - 1,   1, 0,   -3, 2147483647,
                            65536, -5,   -1, 1,   -65537, 7>>
    [] k = "bytes" -> <<0, 255, 1, 128, 85, 170, 15>>
    [] k = "int8" -> <<-128, 0, 5, -1, 127, -3, 1>>
PoolN(k) == Len(Pool(k)) \div Per(k)

\* a buffer of Cap elements: the pool rotated by off elements, repeated
BufLen(k) == IF k = "bytes" THEN MaxBytes ELSE Cap * Per(k)
MkBuf(k, off) ==
  [j \in 1..BufLen(k) |-> Pool(k)[((j - 1 + Per(k) * off) % Len(Pool(k))) + 1]]
\* the output buffer before the call (complex8 for pack: two int8 per element)
OutBuf(k) == [j \in 1..BufLen(k) |-> 40 + j]

NoCall == [op |-> "none", len |-> 0, shift |-> 0]
FftIdle == [entry |-> "none", size |-> 0, ran |-> <<>>, output |-> "untouched"]
\* frame parameters of the two logical frames
Frames == {"A", "B"}
FrameLen(f) == IF f = "A" THEN 24 ELSE 48
CodeRate(f) == IF f = "A" THEN 2 ELSE -3
CtxZero == [init |-> "none", frame_len |-> 0, code_rate |-> 0, fed |-> <<>>]

BufInit(kinds, withB) ==
  /\ kind \in kinds
  /\ \E oa \in 0..(PoolN(kind) - 1) :
       \E ob \in (IF withB THEN 0..(PoolN(kind) - 1) ELSE {0}) :
         pre = [A |-> MkBuf(kind, oa), B |-> MkBuf(kind, ob), C |-> OutBuf(kind)]
  /\ post = pre
  /\ call = NoCall
  /\ fft = FftIdle
  /\ console = <<>>
  /\ ctx = CtxZero
  /\ issued = <<>>
  /\ frames = [f \in Frames |-> 0]

\* a kernel call returned leaving memory m
Called(op, len, shift, m) ==
  /\ call = NoCall
  /\ post' = m
  /\ call' = [op |-> op, len |-> len, shift |-> shift]
  /\ UNCHANGED <<kind, pre, fftVars, vitVars>>

\* the caller takes the result and hands the same buffers to the next call
Release ==
  /\ call # NoCall
  /\ post' = pre
  /\ call' = NoCall
  /\ UNCHANGED <<kind, pre, fftVars, vitVars>>

Lens == 0..MaxLen
Shifts16 == 0..15
Shifts32 == 0..31

add_complex16 == kind = "complex16" /\ \E len \in Lens :
  Called("add_complex16", len, 0, __ext_v_add_complex16(pre, "C", len, "A", "B"))
add_complex32 == kind = "complex32" /\ \E len \in Lens :
  Called("add_complex32", len, 0, __ext_v_add_complex32(pre, "C", len, "A", "B"))
add_int16 == kind = "int16" /\ \E len \in Lens :
  Called("add_int16", len, 0, __ext_v_add_int16(pre, "C", len, "A", "B"))
add_int32 == kind = "int32" /\ \E len \in Lens :
  Called("add_int32", len, 0, __ext_v_add_int32(pre, "C", len, "A", "B"))
sub_complex16 == kind = "complex16" /\ \E len \in Lens :
  Called("sub_complex16", len, 0, __ext_v_sub_complex16(pre, "C", len, "A", "B"))
sub_complex32 == kind = "complex32" /\ \E len \in Lens :
  Called("sub_complex32", len, 0, __ext_v_sub_complex32(pre, "C", len, "A", "B"))
sub_int16 == kind = "int16" /\ \E len \in Lens :
  Called("sub_int16", len, 0, __ext_v_sub_int16(pre, "C", len, "A", "B"))
sub_int32 == kind = "int32" /\ \E len \in Lens :
  Called("sub_int32", len, 0, __ext_v_sub_int32(pre, "C", len, "A", "B"))

shift_right_complex32 == kind = "complex32" /\ \E len \in Lens, sh \in Shifts32 :
  Called("shift_right_complex32", len, sh,
         __ext_v_shift_right_complex32(pre, "C", "A", len, sh))
shift_right_complex16 == kind = "complex16" /\ \E len \in Lens, sh \in Shifts16 :
  Called("shift_right_complex16", len, sh,
         __ext_v_shift_right_complex16(pre, "C", "A", len, sh))
shift_right_int32 == kind = "int32" /\ \E len \in Lens, sh \in Shifts32 :
  Called("shift_right_int32", len, sh,
         __ext_v_shift_right_int32(pre, "C", "A", len, sh))
shift_right_int16 == kind = "int16" /\ \E len \in Lens, sh \in Shifts16 :
  Called("shift_right_int16", len, sh,
         __ext_v_shift_right_int16(pre, "C", "A", len, sh))

mul_complex16 == kind = "complex16" /\ \E len \in Lens, sh \in Shifts16 :
  Called("mul_complex16", len, sh, __ext_v_mul_complex16(pre, "C", "A", len, "B", sh))
conj_mul_complex16 == kind = "complex16" /\ \E len \in Lens, sh \in Shifts16 :
  Called("conj_mul_complex16", len, sh,
         __ext_v_conj_mul_complex16(pre, "C", "A", len, "B", sh))

pack_complex16_complex8 == kind = "complex16" /\ \E lenin \in 0..(2 * MaxLen) :
  Called("pack", lenin, 0, __ext_v_pack_complex16_complex8(pre, "C", "A", lenin))

\* bit lengths: everything up to the buffer size, and a few negative ones
BitLens == (-9)..(8 * MaxBytes)
v_or == kind = "bytes" /\ \E inlen1 \in BitLens :
  Called("or", inlen1, 0, __ext_v_or(pre, Ptr("C"), Ptr("A"), inlen1, Ptr("B")))

InitAddSub == BufInit(Kinds, TRUE)
NextAddSub ==
  \/ add_complex16 \/ add_complex32 \/ add_int16 \/ add_int32
  \/ sub_complex16 \/ sub_complex32 \/ sub_int16 \/ sub_int32
  \/ Release
SpecAddSub == InitAddSub /\ [][NextAddSub]_vars

InitShift == BufInit(Kinds, FALSE)
NextShift ==
  \/ shift_right_complex32 \/ shift_right_complex16
  \/ shift_right_int32 \/ shift_right_int16
  \/ Release
SpecShift == InitShift /\ [][NextShift]_vars

InitMul == BufInit({"complex16"}, TRUE)
NextMul == mul_complex16 \/ conj_mul_complex16 \/ Release
SpecMul == InitMul /\ [][NextMul]_vars

InitPack == BufInit({"complex16"}, FALSE)
NextPack == pack_complex16_complex8 \/ Release
SpecPack == InitPack /\ [][NextPack]_vars

InitOr == BufInit({"bytes"}, TRUE)
NextOr == v_or \/ Release
SpecOr == InitOr /\ [][NextOr]_vars

\* re goes to C, im to a second output buffer D
conj_mul_complex16_int32 == kind = "complex16" /\ \E len \in Lens :
  Called("conj_mul_int32", len, 0,
         __ext_v_conj_mul_complex16_int32(
           [A |-> pre.A, B |-> pre.B, C |-> pre.C, D |-> [j \in 1..Cap |-> 80 + j]],
           "C", "D", "A", len, "B"))

\* out is the buffer of x (A) or of y (B)
mul_complex16_in_place ==
  kind = "complex16" /\ \E len \in Lens, sh \in {0, 1, 8, 15}, out \in {"A", "B"} :
    Called(IF out = "A" THEN "mul_in_x" ELSE "mul_in_y", len, sh,
           __ext_v_mul_complex16(pre, out, "A", len, "B", sh))
conj_mul_complex16_in_place ==
  kind = "complex16" /\ \E len \in Lens, sh \in {0, 1, 8, 15}, out \in {"A", "B"} :
    Called(IF out = "A" THEN "conj_mul_in_x" ELSE "conj_mul_in_y", len, sh,
           __ext_v_conj_mul_complex16(pre, out, "A", len, "B", sh))

NextMulVariants ==
  \/ conj_mul_complex16_int32
  \/ mul_complex16_in_place \/ conj_mul_complex16_in_place
  \/ Release
SpecMulVariants == InitMul /\ [][NextMulVariants]_vars

\* a kernel that returns a value leaves memory as it was; ret is the value
Returns(m, v) == [ret |-> v, A |-> m.A, B |-> m.B, C |-> m.C]
\* hadd puts its result in a buffer of its own (C) or in the input buffer (A)
hadd_complex16 == kind = "complex16" /\ \E z \in {"A", "C"} :
  Called(IF z = "A" THEN "hadd_in_place" ELSE "hadd", 4, 0,
         __ext_v_hadd_complex16(pre, z, "A"))
hadd_int32 == kind = "int32" /\ \E z \in {"A", "C"} :
  Called(IF z = "A" THEN "hadd_in_place" ELSE "hadd", 4, 0,
         __ext_v_hadd_int32(pre, z, "A"))

sum_complex16 == kind = "complex16" /\ \E len \in Lens :
  Called("sum", len, 0, Returns(pre, __ext_v_sum_complex16(pre, "A", len)))
sum_complex32 == kind = "complex32" /\ \E len \in Lens :
  Called("sum", len, 0, Returns(pre, __ext_v_sum_complex32(pre, "A", len)))
sum_int16 == kind = "int16" /\ \E len \in Lens :
  Called("sum", len, 0, Returns(pre, <<__ext_v_sum_int16(pre, "A", len)>>))
sum_int32 == kind = "int32" /\ \E len \in Lens :
  Called("sum", len, 0, Returns(pre, <<__ext_v_sum_int32(pre, "A", len)>>))

sumc32 == kind = "complex32" /\ Called("sum4", 4, 0, Returns(pre, __ext_sumc32(pre, "A")))
sumc16 == kind = "complex16" /\ Called("sum4", 4, 0, Returns(pre, __ext_sumc16(pre, "A")))
sumi32 == kind = "int32" /\ Called("sum4", 4, 0, Returns(pre, <<__ext_sumi32(pre, "A")>>))
sumi16 == kind = "int16" /\ Called("sum4", 4, 0, Returns(pre, <<__ext_sumi16(pre, "A")>>))

NextSum ==
  \/ hadd_complex16 \/ hadd_int32
  \/ sum_complex16 \/ sum_complex32 \/ sum_int16 \/ sum_int32
  \/ sumc32 \/ sumc16 \/ sumi32 \/ sumi16
  \/ Release
SpecSum == InitShift /\ [][NextSum]_vars

v_and == kind = "bytes" /\ \E inlen1 \in BitLens :
  Called("and", inlen1, 0, __ext_v_and(pre, Ptr("C"), Ptr("A"), inlen1, Ptr("B")))
v_andnot == kind = "bytes" /\ \E inlen1 \in BitLens :
  Called("andnot", inlen1, 0, __ext_v_andnot(pre, Ptr("C"), Ptr("A"), inlen1, Ptr("B")))
v_xor == kind = "bytes" /\ \E inlen1 \in BitLens :
  Called("xor", inlen1, 0, __ext_v_xor(pre, Ptr("C"), Ptr("A"), inlen1, Ptr("B")))

\* element counts up to the buffer size: one 16-byte chunk and a remainder
v_sign_int8 == kind = "int8" /\ \E inlen1 \in 0..Cap :
  Called("sign", inlen1, 0, __ext_v_sign_int8(pre, "C", "A", inlen1, "B"))

InitBits == BufInit({"bytes", "int8"}, TRUE)
NextBits == v_and \/ v_andnot \/ v_xor \/ v_sign_int8 \/ Release
SpecBits == InitBits /\ [][NextBits]_vars

\* size arguments: every case label and sizes outside the switch
SizeArgs ==
  {FFTCases[i][1] : i \in DOMAIN FFTCases} \cup {IFFTCases[i][1] : i \in DOMAIN IFFTCases}
  \cup {-32768, -2048, -16, -1, 0, 1, 2, 4, 8, 11, 13, 15, 17, 31, 33, 100, 1000,
        1201, 2047, 2049, 4096, 8192, 32767}
\* int arguments that are not int16 values
WideSizeArgs == {65552, 131072, -65520}

\* what the caller sees once the entry point has returned
Returned(st) ==
  [entry |-> st.entry, size |-> st.size, ran |-> st.ran, output |-> st.output]

sora_fft == \E n \in SizeArgs \cup WideSizeArgs :
  LET st == __ext_sora_fft(Request("fft", n), n) IN
  /\ fft' = Returned(st)
  /\ console' = st.console
  /\ UNCHANGED <<bufVars, vitVars>>
sora_fft_dynamic == \E n \in SizeArgs :
  LET st == __ext_sora_fft_dynamic(Request("fft_dynamic", n), n) IN
  /\ fft' = Returned(st)
  /\ console' = st.console
  /\ UNCHANGED <<bufVars, vitVars>>
sora_ifft == \E n \in SizeArgs \cup WideSizeArgs :
  LET st == __ext_sora_ifft(Request("ifft", n), n) IN
  /\ fft' = Returned(st)
  /\ console' = st.console
  /\ UNCHANGED <<bufVars, vitVars>>
sora_ifft_dynamic == \E n \in SizeArgs :
  LET st == __ext_sora_ifft_dynamic(Request("ifft_dynamic", n), n) IN
  /\ fft' = Returned(st)
  /\ console' = st.console
  /\ UNCHANGED <<bufVars, vitVars>>

InitFft == BufInit({"complex16"}, FALSE) /\ pre.A = MkBuf("complex16", 0)
NextFft == sora_fft \/ sora_fft_dynamic \/ sora_ifft \/ sora_ifft_dynamic
SpecFft == InitFft /\ [][NextFft]_vars

\* frame f has issued one more call; each frame issues at most MaxCalls calls
Logged(f, op, arg) ==
  /\ issued' = Append(issued, [frame |-> f, op |-> op, arg |-> arg])
  /\ frames' = [frames EXCEPT ![f] = @ + 1]
  /\ UNCHANGED <<bufVars, fftVars>>

viterbi_brick_init == \E f \in Frames :
  /\ frames[f] < MaxCalls
  /\ ctx' = __ext_viterbi_brick_init(ctx, FrameLen(f), CodeRate(f))
  /\ Logged(f, "init", <<FrameLen(f), CodeRate(f)>>)
viterbiSig11a_brick_init == \E f \in Frames :
  /\ frames[f] < MaxCalls
  /\ ctx' = __ext_viterbiSig11a_brick_init(ctx, FrameLen(f), CodeRate(f))
  /\ Logged(f, "initSig11a", <<FrameLen(f), CodeRate(f)>>)
\* the chunk a frame feeds is identified by the frame and the call's number
viterbi_brick_decode == \E f \in Frames :
  /\ frames[f] < MaxCalls
  /\ ctx' = __ext_viterbi_brick_decode(ctx, <<f, frames[f]>>)
  /\ Logged(f, "decode", <<f, frames[f]>>)

InitViterbi == BufInit({"complex16"}, FALSE) /\ pre.A = MkBuf("complex16", 0)
NextViterbi == viterbi_brick_init \/ viterbiSig11a_brick_init \/ viterbi_brick_decode
SpecViterbi == InitViterbi /\ [][NextViterbi]_vars

----------------------------------------------------------------------------
(* Reference arithmetic for the properties, on mathematical integers *)

RefWrap16(v) == ((v + 32768) % 65536) - 32768
RefWrap8(v) == ((v + 128) % 256) - 128
\* (a + b) mod 2^32 and (a - b) mod 2^32 as signed values, for signed 32-bit a, b
RefAdd32(a, b) ==
  IF a >= 0 /\ b >= 0 /\ a > 2147483647 - b
    THEN (a - 2147483647 - 1) + (b - 2147483647 - 1)
  ELSE IF a < 0 /\ b < 0 /\ a < (-2147483647 - 1) - b
    THEN (a + 2147483647 + 1) + (b + 2147483647 + 1)
  ELSE a + b
RefSub32(a, b) ==
  IF a >= 0 /\ b < 0 /\ a > 2147483647 + b
    THEN (a - 2147483647 - 1) - (b + 2147483647 + 1)
  ELSE IF a < 0 /\ b >= 0 /\ a < (-2147483647 - 1) + b
    THEN (a + 2147483647 + 1) - (b - 2147483647 - 1)
  ELSE a - b
\* floor(v / 2^k): the arithmetic right shift
RefSar(v, k) == IF k >= 31 THEN (IF v < 0 THEN -1 ELSE 0) ELSE v \div (2 ^ k)
RefClamp8(v) == IF v > 127 THEN 127 ELSE IF v < -128 THEN -128 ELSE v

\* bitwise OR of two bytes, bit by bit
RefBit(a, i) == (a \div (2 ^ i)) % 2
RefOr8(a, b) ==
  LET o(i) == IF RefBit(a, i) + RefBit(b, i) > 0 THEN 2 ^ i ELSE 0
  IN o(0) + o(1) + o(2) + o(3) + o(4) + o(5) + o(6) + o(7)
\* ceil(bits / 8) for bits >= 0, no bytes for a negative bit length
RefByteLen(bits) == IF bits <= 0 THEN 0 ELSE (bits + 7) \div 8

\* element i of the caller's inputs and of the result
XRe(i) == Rd(pre, "A", 2 * i)
XIm(i) == Rd(pre, "A", 2 * i + 1)
YRe(i) == Rd(pre, "B", 2 * i)
YIm(i) == Rd(pre, "B", 2 * i + 1)
OutRe(i) == Rd(post, "C", 2 * i)
OutIm(i) == Rd(post, "C", 2 * i + 1)
\* 16 or 32: the component width of the caller's buffers
Width == IF kind \in {"int16", "complex16"} THEN 16 ELSE 32

----------------------------------------------------------------------------
(* Properties *)

\* C1: after __ext_v_mul_complex16 with shift k, every element i < len holds
\* re = low 16 bits of ((x.re*y.re - x.im*y.im) >> k) and
\* im = low 16 bits of ((x.re*y.im + x.im*y.re) >> k), the sums taken at 32 bits
\* and the shift arithmetic, in the vector loop and in the scalar tail alike.
C1_MulIsShiftedProduct ==
  call.op = "mul_complex16" =>
    \A i \in 0..(call.len - 1) :
      /\ OutRe(i) = RefWrap16(RefSar(RefSub32(XRe(i) * YRe(i), XIm(i) * YIm(i)),
                                      call.shift))
      /\ OutIm(i) = RefWrap16(RefSar(RefAdd32(XRe(i) * YIm(i), XIm(i) * YRe(i)),
                                      call.shift))

\* C2: after a shiftRight kernel (int16, int32, complex16, complex32) with
\* shift k, every output component below len equals the signed input component
\* arithmetically shifted right by k, in the vector loop and in the tail.
C2_ShiftRightIsArithmetic ==
  call.op \in {"shift_right_int16", "shift_right_int32",
               "shift_right_complex16", "shift_right_complex32"} =>
    \A j \in 0..(call.len * Per(kind) - 1) :
      Rd(post, "C", j) = RefSar(Rd(pre, "A", j), call.shift)

\* C3: after __ext_v_pack_complex16_complex8 every output component of every
\* element j < lenin is the input component clamped to [-128, 127], also for
\* the lenin % 8 trailing elements.
C3_PackSaturates ==
  call.op = "pack" =>
    \A j \in 0..(2 * call.len - 1) :
      Rd(post, "C", j) = RefClamp8(Rd(pre, "A", j))

\* C4: after add (sub) over int16, int32, complex16, complex32 every output
\* component below len is a + b (a - b) wrapped modulo 2^16 resp. 2^32, in the
\* vector loop and in the tail alike, and the components from len on keep the
\* values they had before the call.
C4_AddSubWrap ==
  LET isAdd == call.op \in {"add_int16", "add_int32", "add_complex16", "add_complex32"}
      isSub == call.op \in {"sub_int16", "sub_int32", "sub_complex16", "sub_complex32"}
      n == call.len * Per(kind)
      want(a, b) ==
        IF Width = 16 THEN RefWrap16(IF isAdd THEN a + b ELSE a - b)
        ELSE IF isAdd THEN RefAdd32(a, b) ELSE RefSub32(a, b)
  IN (isAdd \/ isSub) =>
       /\ \A j \in 0..(n - 1) :
            Rd(post, "C", j) = want(Rd(pre, "A", j), Rd(pre, "B", j))
       /\ \A j \in n..(Cap * Per(kind) - 1) : Rd(post, "C", j) = Rd(pre, "C", j)
       /\ post.A = pre.A /\ post.B = pre.B

\* C4 witness: an add and a sub that overflow the component range both in a
\* vector chunk and in the scalar tail, with untouched elements after len.
C4_Overflows(j) ==
  LET a == Rd(pre, "A", j)
      b == Rd(pre, "B", j)
  IN IF call.op \in {"add_int16", "add_int32", "add_complex16", "add_complex32"}
     THEN (a > 0 /\ b > 0 /\ Rd(post, "C", j) < 0)
          \/ (a < 0 /\ b < 0 /\ Rd(post, "C", j) >= 0)
     ELSE (a >= 0 /\ b < 0 /\ Rd(post, "C", j) < 0)
          \/ (a < 0 /\ b > 0 /\ Rd(post, "C", j) >= 0)
C4_Witness ==
  /\ call.op \in {"add_int32", "sub_complex16"}
  /\ call.len = MaxLen
  /\ \E j \in 0..3 : C4_Overflows(j)
  /\ C4_Overflows(MaxLen * Per(kind) - 1)

\* C5: after __ext_v_conj_mul_complex16 with shift k, every element i < len
\* holds re = low 16 bits of ((x.re*y.re + x.im*y.im) >> k) and
\* im = low 16 bits of ((x.im*y.re - x.re*y.im) >> k), with an arithmetic shift
\* of the 32-bit value, in the vector loop and in the scalar tail alike.
C5_ConjMulIsShiftedProduct ==
  call.op = "conj_mul_complex16" =>
    \A i \in 0..(call.len - 1) :
      /\ OutRe(i) = RefWrap16(RefSar(RefAdd32(XRe(i) * YRe(i), XIm(i) * YIm(i)),
                                      call.shift))
      /\ OutIm(i) = RefWrap16(RefSar(RefSub32(XIm(i) * YRe(i), XRe(i) * YIm(i)),
                                      call.shift))

\* C6: __ext_v_or with inlen1 in {48, 96, 192, 288} (the specialised paths)
\* leaves output[j] = input1[j] | input2[j] for j < inlen1/8 and every later
\* output byte unchanged, exactly what the byte loop does; for every other
\* inlen1 the byte loop writes exactly ceil(inlen1/8) bytes.
C6_OrFastPathsMatchByteLoop ==
  call.op = "or" =>
    /\ \A j \in 0..(MaxBytes - 1) :
         Rd(post, "C", j) =
           IF j < RefByteLen(call.len)
           THEN RefOr8(Rd(pre, "A", j), Rd(pre, "B", j))
           ELSE Rd(pre, "C", j)
    /\ post.A = pre.A /\ post.B = pre.B

\* C6 witness: the 288-bit path has run, its last byte (35) was rewritten and
\* the byte after it kept its value; likewise for 48, 96 and 192 bits.
C6_Witness ==
  /\ call.op = "or" /\ call.len = 288
  /\ Rd(post, "C", 35) # Rd(pre, "C", 35)
  /\ Rd(post, "C", 24) # Rd(pre, "C", 24)
  /\ Rd(post, "C", 36) = Rd(pre, "C", 36)


----------------------------------------------------------------------------
(* Transform catalog and decoder context *)

\* the sizes the catalog lists, in ascending order
RefCatalog ==
  {12, 16, 24, 32, 36, 48, 60, 64, 72, 96, 108, 120, 128, 144, 180, 192, 216, 240, 256, 288, 300, 324, 360, 384, 432, 480, 512, 540, 576, 600, 648, 720, 768, 864, 900, 960, 972, 1024, 1080, 1152, 1200, 2048}
RefForward == fft.entry \in {"fft", "fft_dynamic"}
RefTransform == IF RefForward THEN "FFTSafe" ELSE "IFFTSafe"
RefEntryPoint == IF RefForward THEN "__ext_sora_fft" ELSE "__ext_sora_ifft"

\* C7: a transform request (fft, ifft or their dynamic variants) for a size
\* outside the catalog prints exactly one diagnostic naming the size, runs no
\* transform, and leaves the output as it was.
C7_UnsupportedSizeIsNoOp ==
  (fft.entry # "none" /\ fft.size \notin RefCatalog) =>
     /\ console = <<[from |-> RefEntryPoint, unsupported |-> fft.size]>>
     /\ fft.ran = <<>>
     /\ fft.output = "untouched"
\* C7 witness: the inverse transform was asked for 8 points and only complained
C7_Witness ==
  /\ fft.entry = "ifft_dynamic" /\ fft.size = 8
  /\ Len(console) = 1 /\ fft.ran = <<>> /\ fft.output = "untouched"

\* C8: the catalog has 42 sizes; a request for a catalog size n, forward or
\* inverse, direct or dynamic, runs exactly the transform of length n of its
\* direction and prints nothing; a request for any other size runs none.
C8_SameCatalogExactInstantiation ==
  /\ Cardinality(RefCatalog) = 42
  /\ fft.entry # "none" =>
       IF fft.size \in RefCatalog
       THEN /\ fft.ran = <<<<RefTransform, fft.size>>>>
            /\ fft.output = <<RefTransform, fft.size>>
            /\ console = <<>>
       ELSE fft.ran = <<>>
\* C8 witness: the dynamic inverse entry point ran the 972-point inverse
C8_Witness ==
  /\ fft.entry = "ifft_dynamic" /\ fft.size = 972
  /\ fft.ran = <<<<"IFFTSafe", 972>>>>

RefInits == {"init", "initSig11a"}
RefLastInit ==
  IF \E i \in DOMAIN issued : issued[i].op \in RefInits
  THEN CHOOSE i \in DOMAIN issued :
         /\ issued[i].op \in RefInits
         /\ \A j \in DOMAIN issued : issued[j].op \in RefInits => j <= i
  ELSE 0
RefDecodesSince(i) ==
  LET idx == {j \in DOMAIN issued : j > i /\ issued[j].op = "decode"}
      f[k \in 0..Len(issued)] ==
        IF k = 0 THEN <<>>
        ELSE IF k \in idx THEN Append(f[k - 1], issued[k].arg) ELSE f[k - 1]
  IN f[Len(issued)]

\* C9: there is one decoder context: after any interleaving of inits (either
\* variant) and decodes by two frames, the context is the one set up by the
\* most recent init, whichever frame issued it, advanced by exactly the chunks
\* decoded since, whichever frame fed them; chunks decoded before that init
\* are gone.
C9_OneSharedContext ==
  LET i == RefLastInit IN
  /\ ctx.fed = RefDecodesSince(i)
  /\ i > 0 =>
       /\ ctx.init = (IF issued[i].op = "init" THEN "viterbi" ELSE "viterbiSig11a")
       /\ ctx.frame_len = FrameLen(issued[i].frame)
       /\ ctx.code_rate = CodeRate(issued[i].frame) % 65536
  /\ i = 0 => ctx.init = "none"
\* C9 witness: frame A initialised and decoded a chunk, frame B ran the
\* signal-field init, and A's next chunk was decoded on B's context
C9_Witness ==
  /\ Len(issued) = 4
  /\ issued[1].frame = "A" /\ issued[1].op = "init"
  /\ issued[2].frame = "A" /\ issued[2].op = "decode"
  /\ issued[3].frame = "B" /\ issued[3].op = "initSig11a"
  /\ issued[4].frame = "A" /\ issued[4].op = "decode"
  /\ ctx.init = "viterbiSig11a" /\ ctx.frame_len = FrameLen("B")
  /\ ctx.fed = <<issued[4].arg>>

\* C11: after __ext_v_conj_mul_complex16_int32 every element i < len1 holds
\* re[i] = x.re*y.re + x.im*y.im and im[i] = x.im*y.re - x.re*y.im as 32-bit
\* values, unshifted, in the vector loop and in the scalar tail alike, also
\* for components equal to -32768.
C11_ConjMulInt32IsProduct ==
  call.op = "conj_mul_int32" =>
    \A i \in 0..(call.len - 1) :
      /\ Rd(post, "C", i) = RefAdd32(XRe(i) * YRe(i), XIm(i) * YIm(i))
      /\ Rd(post, "D", i) = RefSub32(XIm(i) * YRe(i), XRe(i) * YIm(i))

\* the returned value, and the wrapped running sum of the first n elements of
\* the input, component c (0 for re or a scalar, 1 for im)
RefRet == post.ret
RefPartial(n, c) ==
  LET f[k \in 0..n] ==
        IF k = 0 THEN 0
        ELSE LET v == Rd(pre, "A", Per(kind) * (k - 1) + c)
             IN IF Width = 16 THEN RefWrap16(f[k - 1] + v) ELSE RefAdd32(f[k - 1], v)
  IN f[n]

\* C12: each sum kernel (int16, int32, complex16, complex32) returns, for
\* every len >= 0, the sum of the first len elements, per component,
\* accumulated in order and wrapped modulo 2^16 resp. 2^32 (the component
\* width of the return type); for len = 0 it returns 0; memory is untouched.
C12_SumIsWrappedSequentialSum ==
  call.op = "sum" =>
    /\ Len(RefRet) = Per(kind)
    /\ \A c \in 0..(Per(kind) - 1) : RefRet[c + 1] = RefPartial(call.len, c)
    /\ call.len = 0 => \A c \in 1..Per(kind) : RefRet[c] = 0
    /\ post.A = pre.A /\ post.C = pre.C
\* C12 witness: a sum over MaxLen elements whose 16-bit resp. 32-bit
\* accumulator wrapped: the returned value is not the unbounded total
C12_Witness ==
  /\ call.op = "sum" /\ call.len = MaxLen
  /\ kind \in {"int16", "complex32"}
  /\ \E n \in 1..MaxLen :
       LET a == RefPartial(n - 1, 0)
           v == Rd(pre, "A", Per(kind) * (n - 1))
       IN (a > 0 /\ v > 0 /\ RefPartial(n, 0) < 0)
          \/ (a < 0 /\ v < 0 /\ RefPartial(n, 0) >= 0)
  /\ post.ret[1] = RefPartial(MaxLen, 0)

\* C13: hadd (complex16, int32) leaves in each of the first four output
\* elements the sum of the first four input elements as they were before the
\* call, per component and wrapped to the component width, also when the
\* output buffer is the input buffer; nothing else is written.
C13_HaddBroadcastsSumOfFour ==
  call.op \in {"hadd", "hadd_in_place"} =>
    LET z == IF call.op = "hadd" THEN "C" ELSE "A"
        P == Per(kind)
    IN /\ \A i \in 0..3 : \A c \in 0..(P - 1) :
            Rd(post, z, P * i + c) = RefPartial(4, c)
       /\ \A j \in (4 * P)..(Cap * P - 1) : Rd(post, z, j) = Rd(pre, z, j)
       /\ post.B = pre.B
       /\ call.op = "hadd" => post.A = pre.A
       /\ call.op = "hadd_in_place" => post.C = pre.C
\* C13 witness: an in-place complex hadd replaced differing input elements by
\* their common total
C13_Witness ==
  /\ call.op = "hadd_in_place" /\ kind = "complex16"
  /\ Rd(pre, "A", 0) # Rd(pre, "A", 2)
  /\ Rd(post, "A", 0) = Rd(post, "A", 6) /\ Rd(post, "A", 1) = Rd(post, "A", 7)
  /\ Rd(post, "A", 0) # Rd(pre, "A", 0)

\* C17: each 4-element sum helper (sumc16, sumc32, sumi16, sumi32) returns
\* x[0]+x[1]+x[2]+x[3], per component, wrapped only to the width of its return
\* type: 16 bits for sumc16 / sumi16, 32 bits for sumc32 / sumi32.
C17_Sum4IsFullWidthSum ==
  call.op = "sum4" =>
    /\ Len(RefRet) = Per(kind)
    /\ \A c \in 0..(Per(kind) - 1) : RefRet[c + 1] = RefPartial(4, c)

\* a | b, a & b, a ^ b, (~a) & b on bytes, bit by bit
RefBits8(op, a, b) ==
  LET bit(i) ==
        LET x == RefBit(a, i)
            y == RefBit(b, i)
        IN CASE op = "and" -> x * y
             [] op = "xor" -> (x + y) % 2
             [] op = "andnot" -> (1 - x) * y
      f[i \in 0..7] == bit(i) * 2 ^ i + (IF i = 0 THEN 0 ELSE f[i - 1])
  IN f[7]

\* C14: the generic AND, XOR and AND-NOT kernels write, for every bit length
\* inlen1 >= 0, exactly ceil(inlen1/8) output bytes: output[j] is
\* input1[j] & input2[j], input1[j] ^ input2[j], resp. (~input1[j]) & input2[j]
\* for j < ceil(inlen1/8), in a 16-byte chunk or in the byte tail alike, every
\* later output byte keeps its value, and the inputs are not written.
C14_BitKernelsWriteByteLen ==
  call.op \in {"and", "xor", "andnot"} =>
    /\ \A j \in 0..(MaxBytes - 1) :
         Rd(post, "C", j) =
           IF j < RefByteLen(call.len)
           THEN RefBits8(call.op, Rd(pre, "A", j), Rd(pre, "B", j))
           ELSE Rd(pre, "C", j)
    /\ post.A = pre.A /\ post.B = pre.B
\* C14 witness: an AND-NOT over two 16-byte chunks and a byte tail that ends
\* inside a byte, with a tail byte where (~a) & b differs from a & ~b
C14_Witness ==
  /\ call.op = "andnot" /\ call.len = 8 * MaxBytes - 11
  /\ Rd(post, "C", MaxBytes - 2) = RefBits8("andnot", Rd(pre, "A", MaxBytes - 2),
                                            Rd(pre, "B", MaxBytes - 2))
  /\ Rd(post, "C", MaxBytes - 2) # RefBits8("andnot", Rd(pre, "B", MaxBytes - 2),
                                            Rd(pre, "A", MaxBytes - 2))
  /\ Rd(post, "C", 0) # Rd(pre, "C", 0)
  /\ Rd(post, "C", MaxBytes - 1) = Rd(pre, "C", MaxBytes - 1)

\* C15: after __ext_v_sign_int8 the output at an index depends only on
\* (input1, input2) at that index: two indices below inlen1 holding the same
\* pair of input bytes hold the same output byte, whether they lie in the
\* 16-byte chunk or in the scalar tail.
C15_SignSameInBothPaths ==
  call.op = "sign" =>
    \A i, j \in 0..(call.len - 1) :
      (Rd(pre, "A", i) = Rd(pre, "A", j) /\ Rd(pre, "B", i) = Rd(pre, "B", j))
        => Rd(post, "C", i) = Rd(post, "C", j)

\* C16: over every sequence of init and decode calls, the decoder context is
\* advanced by a decode only after some init (either variant): as long as no
\* init has been issued the context is still the uninitialized one.
C16_DecodeOnlyAfterInit ==
  RefLastInit = 0 => ctx = CtxZero

\* what a call with a separate output buffer leaves there, from the same inputs
RefSeparateOut ==
  IF call.op \in {"mul_in_x", "mul_in_y"}
  THEN __ext_v_mul_complex16(pre, "C", "A", call.len, "B", call.shift).C
  ELSE __ext_v_conj_mul_complex16(pre, "C", "A", call.len, "B", call.shift).C

\* C18: __ext_v_mul_complex16 and __ext_v_conj_mul_complex16 called with out
\* being the buffer of x, or of y, leave in the first len1 elements of out
\* exactly what a call with a separate output buffer and the same original
\* inputs leaves there, for vector-loop and scalar-remainder elements alike.
C18_MulInPlaceMatchesSeparate ==
  call.op \in {"mul_in_x", "mul_in_y", "conj_mul_in_x", "conj_mul_in_y"} =>
    LET out == IF call.op \in {"mul_in_x", "conj_mul_in_x"} THEN "A" ELSE "B"
    IN \A j \in 0..(2 * call.len - 1) : Rd(post, out, j) = RefSeparateOut[j + 1]

====
